---- MODULE Spec2Model ----
(***************************************************************************)
(* A model of vs-screen.py: the frame sampler get_frame_numbers, the       *)
(* subtitle/font extractors get_subs and get_fonts, and the script body    *)
(* (__main__) with its directory bookkeeping and cleanup steps.            *)
(*                                                                         *)
(* Strings that the script takes apart (paths, file names) are sequences   *)
(* of one-character strings, so that os.path.join, dirname, basename,      *)
(* splitext, str.lower and glob are computed the way the library computes  *)
(* them.                                                                   *)
(***************************************************************************)
EXTENDS Integers, Sequences, FiniteSets, TLC

VARIABLES
    \* ---- get_frame_numbers (lines 63-70)
    length,       \* len(open_clip(clip))
    n,            \* the parameter n
    num_frames,   \* the global num_frames (line 48)
    frames,       \* the local set `frames` of hundreds-buckets (lines 67-69)
    drawn,        \* how many of the k=n draws of line 66 were made
    spc,          \* position in get_frame_numbers
    result,       \* the returned list (line 70): its entry for each element of frames
    \* ---- the command line (lines 38-48); an optional value is <<>> (None)
    \* or <<value>>
    filename,         \* args.clip
    arg_frames,       \* args.frames
    sub_track,        \* args.sub_track
    remove_sources,   \* args.remove_sources is truthy
    to_zip,           \* args.zip_s is truthy
    remove_dir,       \* args.remove_dir is truthy
    extract_only,     \* args.extract_only is truthy
    remove_index,     \* args.remove_index is truthy
    user_save_path,   \* args.save_path
    \* ---- what mkvmerge -i reports of the container
    file_tracks,      \* the matches of the subtitle pattern (line 82)
    file_attachments, \* the matches of the attachment pattern (line 134)
    \* ---- the script body and the functions it calls
    pc,               \* position in the script
    exit_code,        \* the process's exit status once pc = "exit"
    cwd,              \* the working directory (os.getcwd / os.chdir)
    dirs,             \* the directories that exist
    files,            \* the files that exist, each with the kind of its writer
    dir_name,         \* lines 213, 235
    save_path,        \* lines 216, 242, 247
    req_frames,       \* the global frames (lines 40, 226)
    fidx,             \* position of the loop of line 260
    track_id_m,       \* get_subs (line 97)
    sub_type,         \* get_subs (line 97)
    sub_path,         \* get_subs.path (lines 104-107)
    subs_extension,   \* line 254
    to_extract,       \* get_fonts.to_extract (lines 141-156)
    fi,               \* position of the loop of line 167
    \* ---- history
    made_dir,         \* the directory the run created or found existing
    log               \* the external calls and file-system steps made so far

svars == <<length, n, num_frames, frames, drawn, spc, result>>

args == <<filename, arg_frames, sub_track, remove_sources, to_zip, remove_dir,
          extract_only, remove_index, user_save_path, file_tracks,
          file_attachments>>

rvars == <<pc, exit_code, cwd, dirs, files, dir_name, save_path, req_frames,
           fidx, track_id_m, sub_type, sub_path, subs_extension, to_extract,
           fi, made_dir, log>>

vars == <<svars, args, rvars>>

(***************************************************************************)
(* Bounds of the model.                                                    *)
(***************************************************************************)
\* Largest requested count n in the sampler specification.
MaxN == 10
\* Draws are taken from the EdgeBuckets lowest and the EdgeBuckets highest
\* hundreds of the range; a range of at most 2*EdgeBuckets hundreds is
\* drawn from in full.
EdgeBuckets == 5
\* Largest target count in the top-up specification.
MaxTarget == 4

(***************************************************************************)
(* Strings and paths.  A string is a sequence of one-character strings.    *)
(***************************************************************************)
\* str.rfind(c), 1-based; 0 when c does not occur
RFind(s, c) ==
    IF \E i \in 1 .. Len(s) : s[i] = c
    THEN CHOOSE i \in 1 .. Len(s) : s[i] = c /\ \A j \in (i + 1) .. Len(s) : s[j] # c
    ELSE 0

\* s[:k] and s[k:] with k counted in characters
Take(s, k) == SubSeq(s, 1, k)

Drop(s, k) == SubSeq(s, k + 1, Len(s))

\* str.endswith
EndsWith(s, suffix) ==
    /\ Len(s) >= Len(suffix)
    /\ Drop(s, Len(s) - Len(suffix)) = suffix

\* str.rstrip('/')
RECURSIVE RStripSep(_)
RStripSep(s) ==
    IF s # <<>> /\ s[Len(s)] = "/" THEN RStripSep(Take(s, Len(s) - 1)) ELSE s

\* posixpath.join(a, b)
PathJoin(a, b) ==
    IF b # <<>> /\ b[1] = "/" THEN b
    ELSE IF a = <<>> \/ a[Len(a)] = "/" THEN a \o b
    ELSE a \o <<"/">> \o b

\* posixpath.dirname(p): the head up to the last '/', trailing slashes stripped
\* unless the head is slashes only
PathDirname(p) ==
    LET head == Take(p, RFind(p, "/"))
    IN  IF head # <<>> /\ (\E i \in 1 .. Len(head) : head[i] # "/")
        THEN RStripSep(head)
        ELSE head

\* posixpath.basename(p)
PathBasename(p) == Drop(p, RFind(p, "/"))

\* genericpath._splitext: the extension starts at the last '.' after the last
\* '/', unless only dots precede it in the file name
SplitextIndex(p) ==
    LET sepIndex == RFind(p, "/")
        dotIndex == RFind(p, ".")
    IN  IF dotIndex > sepIndex
           /\ \E i \in (sepIndex + 1) .. (dotIndex - 1) : p[i] # "."
        THEN dotIndex
        ELSE Len(p) + 1

\* os.path.splitext(p)[0] and os.path.splitext(p)[1]
SplitextRoot(p) == Take(p, SplitextIndex(p) - 1)

SplitextExt(p) == Drop(p, SplitextIndex(p) - 1)

\* str.lower, one character
LowerChar(c) ==
    CASE c = "T" -> "t"
      [] c = "F" -> "f"
      [] c = "O" -> "o"
      [] c = "B" -> "b"
      [] OTHER -> c

\* str.lower
Lower(s) == [i \in 1 .. Len(s) |-> LowerChar(s[i])]

\* re.split(r'[\\/]', filename)[-1].rsplit('.', 1)[0]   (lines 213, 235)
DirNameOf(fname) ==
    LET lastSep == IF RFind(fname, "/") > RFind(fname, "\\")
                   THEN RFind(fname, "/") ELSE RFind(fname, "\\")
        last == Drop(fname, lastSep)
    IN  IF RFind(last, ".") > 0 THEN Take(last, RFind(last, ".") - 1) ELSE last

\* '%d' % k for k >= 0
RECURSIVE Decimal(_)
Decimal(k) ==
    LET digit == <<"0", "1", "2", "3", "4", "5", "6", "7", "8", "9">>
    IN  IF k < 10 THEN <<digit[k + 1]>>
        ELSE Decimal(k \div 10) \o <<digit[(k % 10) + 1]>>

\* the components of a path string: the pieces between slashes, empty pieces
\* dropped
RECURSIVE Components(_)
Components(p) ==
    IF p = <<>> THEN <<>>
    ELSE LET i == RFind(p, "/")
             last == Drop(p, i)
             rest == Components(Take(p, IF i = 0 THEN 0 ELSE i - 1))
         IN  IF last = <<>> THEN rest ELSE Append(rest, last)

\* the file-system object a path string names when the working directory is
\* dir: a sequence of components from the root
Resolve(dir, p) ==
    IF p # <<>> /\ p[1] = "/" THEN Components(p) ELSE dir \o Components(p)

\* the directory holding a resolved path
Parent(rp) == Take(rp, Len(rp) - 1)

\* fnmatch of the patterns '*<suffix>' that glob.glob is given in line 270:
\* a name matches when it ends with the suffix; glob leaves out names that
\* start with a dot
GlobMatches(name, suffix) ==
    /\ name # <<>>
    /\ name[1] # "."
    /\ EndsWith(name, suffix)

(***************************************************************************)
(* get_frame_numbers                                                       *)
(***************************************************************************)
\* range(length // 10, length // 10 * 9): first element
RangeLo(len) == len \div 10

RangeHi_Times10(len) == (len \div 10) * 10

\* range(length // 10, length // 10 * 9): one past the last element
RangeHi(len) == (len \div 10) * 9

\* the population the draws are made from
Population(len) == RangeLo(len) .. (RangeHi(len) - 1)

\* x // 100
Bucket(x) == x \div 100

\* number of distinct values of x // 100 over the population
NumBuckets(len) ==
    IF Population(len) = {} THEN 0
    ELSE Bucket(RangeHi(len) - 1) - Bucket(RangeLo(len)) + 1

\* the values a draw is taken from in the model: both ends of the range and
\* the first and last index of each hundred near either end
Draws(len) ==
    LET lo == RangeLo(len)
        hi == RangeHi(len)
        near == (Bucket(lo) .. (Bucket(lo) + EdgeBuckets - 1))
                  \cup ((Bucket(hi - 1) - EdgeBuckets + 1) .. Bucket(hi - 1))
        cand == {lo, hi - 1} \cup {b * 100 : b \in near}
                  \cup {b * 100 + 99 : b \in near}
    IN  cand \cap Population(len)

\* the entry of the returned list made from bucket b (line 70): x * 100
Scale(b) == b * 100

LoopCond_OffByOne(fs, target) == Cardinality(fs) < target - 1

LoopCond_NeverLeaves(fs, target) == Cardinality(fs) <= target

\* while len(frames) < num_frames  (line 68)
LoopCond(fs, target) == Cardinality(fs) < target

\* line 66-67: choices(range(...), k=n), one draw at a time, folded into the
\* set of x // 100; with k = 0 choices() returns [] without looking at the
\* population, and choices() of an empty population raises IndexError
Choices ==
    /\ spc = "choices"
    /\ IF n <= 0
       THEN /\ spc' = "while"
            /\ UNCHANGED <<frames, drawn>>
       ELSE IF Population(length) = {}
       THEN /\ spc' = "raised"
            /\ UNCHANGED <<frames, drawn>>
       ELSE \E x \in Draws(length) :
               /\ frames' = frames \cup {Bucket(x)}
               /\ drawn' = drawn + 1
               /\ spc' = IF drawn + 1 = n THEN "while" ELSE "choices"
    /\ UNCHANGED <<length, n, num_frames, result, args, rvars>>

\* line 68-69: one more draw while the set is too small
TopUp ==
    /\ spc = "while"
    /\ LoopCond(frames, num_frames)
    /\ IF Population(length) = {}
       THEN /\ spc' = "raised"
            /\ UNCHANGED frames
       ELSE \E x \in Draws(length) :
               /\ frames' = frames \cup {Bucket(x)}
               /\ spc' = "while"
    /\ UNCHANGED <<length, n, num_frames, drawn, result, args, rvars>>

\* line 70: return [x * 100 for x in frames]
Return ==
    /\ spc = "while"
    /\ ~LoopCond(frames, num_frames)
    /\ result' = [b \in frames |-> Scale(b)]
    /\ spc' = "returned"
    /\ UNCHANGED <<length, n, num_frames, frames, drawn, args, rvars>>

(***************************************************************************)
(* The command line, the container and the file system                     *)
(***************************************************************************)
\* an optional command-line value: None, or a value
None == <<>>

Some(v) == <<v>>

\* `if sub_track:` (lines 217, 251): neither None nor 0
SubTrackWanted(st) == st # None /\ st[1] # 0

\* `if user_save_path:` (line 238): neither None nor the empty string
SavePathGiven(usp) == usp # None /\ usp[1] # <<>>

\* the directory the script is started in, and its path as os.getcwd gives it
StartDir == << <<"w">> >>

RECURSIVE PathString(_)
PathString(rp) ==
    IF rp = <<>> THEN <<>>
    ELSE PathString(Parent(rp)) \o <<"/">> \o rp[Len(rp)]

Getcwd(dir) == IF dir = <<>> THEN <<"/">> ELSE PathString(dir)

\* os.path.exists
Exists(ds, fs, rp) == rp \in ds \/ \E f \in fs : f.path = rp

\* os.mkdir succeeds when the parent exists and the name is free
MkdirOk(ds, fs, rp) == Parent(rp) \in ds /\ ~Exists(ds, fs, rp)

\* rp is dir or lies below it
Under(rp, dir) == Len(rp) >= Len(dir) /\ Take(rp, Len(dir)) = dir

\* every directory from the root down to rp
Ancestors(rp) == {Take(rp, k) : k \in 0 .. Len(rp)}

\* a file written by a tool: it replaces what was at that path
WriteFile(fs, rp, kind) ==
    {f \in fs : f.path # rp} \cup {[path |-> rp, kind |-> kind]}

\* an entry of the history
Event(op, target, id, rc) == [op |-> op, target |-> target, id |-> id, rc |-> rc]

\* the index file the source filter leaves beside the clip it opens:
\* LWLibavSource for '...ts' (line 55-56), ffms2 otherwise (line 58)
IndexSuffix(path) ==
    IF EndsWith(path, <<"t", "s">>)
    THEN <<".", "l", "w", "i">>
    ELSE <<".", "f", "f", "i", "n", "d", "e", "x">>

\* open_clip(path) (lines 53-60), as far as the file system sees it
OpenClip(fs, dir, path) ==
    WriteFile(fs, Resolve(dir, path \o IndexSuffix(path)), "index")

\* leaving the script: sys.exit(code), an uncaught exception (status 1), or
\* running off its end (status 0)
Exit(code) ==
    /\ pc' = "exit"
    /\ exit_code' = code

ExtractFailed_IgnoresWarnings(proc) == proc > 1

\* `if proc != 0:` (lines 113, 171)
ExtractFailed(proc) == proc # 0

\* the exit codes an external command is given in the model
ExitCodes == {0, 1, 2}

(***************************************************************************)
(* get_sub_track_id, parse_sub_type, get_subs                              *)
(***************************************************************************)
\* mat[i] raises IndexError unless -len <= i < len (line 86)
IndexInRange(len, i) == -len <= i /\ i < len

\* mat[i] (line 86)
PyIndex(seq, i) == IF i >= 0 THEN seq[i + 1] ELSE seq[Len(seq) + i + 1]

TrackLookup_LastOnOverflow(mat, num) ==
    IF IndexInRange(Len(mat), num - 1) THEN Some(PyIndex(mat, num - 1))
    ELSE IF mat # <<>> THEN Some(mat[Len(mat)])
    ELSE None

\* mat = mat[num - 1] (line 86): the match, or None for an IndexError
TrackLookup(mat, num) ==
    IF IndexInRange(Len(mat), num - 1) THEN Some(PyIndex(mat, num - 1))
    ELSE None

\* parse_sub_type (lines 194-207); <<>> stands for the fatal else branch
ParseSubType(t) ==
    CASE t = "HDMV PGS" -> <<".", "p", "g", "s">>
      [] t = "SubStationAlpha" -> <<".", "a", "s", "s">>
      [] t = "SubRip/SRT" -> <<".", "s", "r", "t">>
      [] t = "VobSub" -> <<".", "i", "d", "x">>
      [] OTHER -> <<>>

\* get_subs.path (lines 104-107)
SubPath(fname, spath, ext) ==
    IF ext = <<".", "i", "d", "x">>
    THEN PathJoin(spath, SplitextRoot(PathBasename(fname)))
    ELSE PathJoin(spath, SplitextRoot(PathBasename(fname)) \o ext)

\* the files mkvextract tracks writes for a destination: a VobSub track
\* becomes <path>.idx and <path>.sub
SubFiles(dir, path, ext) ==
    IF ext = <<".", "i", "d", "x">>
    THEN {Resolve(dir, path \o <<".", "i", "d", "x">>),
          Resolve(dir, path \o <<".", "s", "u", "b">>)}
    ELSE {Resolve(dir, path)}

\* get_sub_track_id (lines 73-92), called from get_subs (line 97)
GetSubTrackId ==
    /\ pc = "get_sub_track_id"
    /\ \E ok \in BOOLEAN :
          IF ~ok
          THEN \* check_output raises CalledProcessError: sys.exit(1)
               /\ log' = Append(log, Event("mkvmerge", <<>>, 0, 2))
               /\ Exit(1)
               /\ UNCHANGED <<track_id_m, sub_type>>
          ELSE /\ log' = Append(log, Event("mkvmerge", <<>>, 0, 0))
               /\ IF TrackLookup(file_tracks, sub_track[1]) = None
                  THEN \* IndexError, uncaught
                       /\ Exit(1)
                       /\ UNCHANGED <<track_id_m, sub_type>>
                  ELSE LET mat == TrackLookup(file_tracks, sub_track[1])[1]
                       IN  /\ track_id_m' = mat.id
                           /\ sub_type' = mat.codec
                           /\ pc' = "get_subs"
                           /\ UNCHANGED exit_code
    /\ UNCHANGED <<svars, args, cwd, dirs, files, dir_name, save_path,
                   req_frames, fidx, sub_path, subs_extension, to_extract, fi, made_dir>>

\* get_subs up to the extraction (lines 98-107); track_id_m is never None
\* here, a match being a non-empty tuple (line 88)
GetSubs ==
    /\ pc = "get_subs"
    /\ IF ParseSubType(sub_type) = <<>>
       THEN \* parse_sub_type: sys.exit(1)
            /\ Exit(1)
            /\ UNCHANGED sub_path
       ELSE /\ sub_path' = SubPath(filename, save_path, ParseSubType(sub_type))
            /\ pc' = "extract_subs"
            /\ UNCHANGED exit_code
    /\ UNCHANGED <<svars, args, cwd, dirs, files, dir_name, save_path,
                   req_frames, fidx, track_id_m, sub_type, subs_extension, to_extract, fi, made_dir, log>>

\* get_subs: mkvextract tracks (lines 109-122); mkvextract creates the
\* directories of its destination when they are missing
ExtractSubs ==
    /\ pc = "extract_subs"
    /\ \E proc \in ExitCodes :
          /\ log' = Append(log, Event("mkvextract_tracks",
                                      Resolve(cwd, sub_path), track_id_m, proc))
          /\ IF ExtractFailed(proc)
             THEN /\ Exit(1)
                  /\ UNCHANGED <<dirs, files, subs_extension>>
             ELSE LET out == SubFiles(cwd, sub_path, ParseSubType(sub_type))
                  IN  /\ files' = {f \in files : f.path \notin out}
                                    \cup {[path |-> o, kind |-> "subtitle"] : o \in out}
                      /\ dirs' = dirs \cup UNION {Ancestors(Parent(o)) : o \in out}
                      /\ subs_extension' = ParseSubType(sub_type)
                      /\ pc' = "get_fonts"
                      /\ UNCHANGED exit_code
    /\ UNCHANGED <<svars, args, cwd, dir_name, save_path, req_frames, fidx,
                   track_id_m, sub_type, sub_path, to_extract, fi, made_dir>>

(***************************************************************************)
(* get_fonts                                                               *)
(***************************************************************************)
\* types (line 145)
FontTypes == {"application/x-truetype-font", "application/vnd.ms-opentype"}

\* attach[1] in types
TypeIsFont(a) == a.type \in FontTypes

\* ext == ".otf" or ext == ".ttf", with ext of line 144
ExtIsFont(a) ==
    LET ext == Lower(SplitextExt(a.name))
    IN  ext = <<".", "o", "t", "f">> \/ ext = <<".", "t", "t", "f">>

Appended_TypeOnly(a) ==
    \/ TypeIsFont(a) /\ ExtIsFont(a)
    \/ TypeIsFont(a) /\ ~ExtIsFont(a)

\* the if / elif / elif of lines 146-156: whether attach is appended
Appended(a) ==
    \/ TypeIsFont(a) /\ ExtIsFont(a)
    \/ TypeIsFont(a) /\ ~ExtIsFont(a)
    \/ ~TypeIsFont(a) /\ ExtIsFont(a)

\* the loop of lines 141-156
RECURSIVE SelectFonts(_)
SelectFonts(all) ==
    IF all = <<>> THEN <<>>
    ELSE LET rest == SelectFonts(Take(all, Len(all) - 1))
             a == all[Len(all)]
         IN  IF Appended(a)
             THEN Append(rest, [id |-> a.id, name |-> a.name])
             ELSE rest

AfterFonts_FallsThrough == "render_subs"

\* where the script goes on when get_fonts returns (lines 222, 256)
AfterFonts == IF extract_only THEN "exit_only" ELSE "render_subs"

\* get_fonts up to the extraction loop (lines 127-160)
GetFontsInspect ==
    /\ pc = "get_fonts"
    /\ \E ok \in BOOLEAN :
          IF ~ok
          THEN /\ log' = Append(log, Event("mkvmerge", <<>>, 0, 2))
               /\ Exit(1)
               /\ UNCHANGED <<to_extract, fi>>
          ELSE /\ log' = Append(log, Event("mkvmerge", <<>>, 0, 0))
               /\ to_extract' = SelectFonts(file_attachments)
               /\ fi' = 1
               /\ pc' = IF SelectFonts(file_attachments) = <<>>
                        THEN AfterFonts ELSE "extract_fonts"
               /\ UNCHANGED exit_code
    /\ UNCHANGED <<svars, args, cwd, dirs, files, dir_name, save_path,
                   req_frames, fidx, track_id_m, sub_type, sub_path, subs_extension, made_dir>>

\* one round of the loop of lines 167-173, and line 175 after the last;
\* mkvextract creates the directories of its destination when they are missing
ExtractFont ==
    /\ pc = "extract_fonts"
    /\ LET a == to_extract[fi]
           font == Resolve(cwd, PathJoin(save_path, a.name))
       IN  \E proc \in ExitCodes :
              /\ log' = Append(log, Event("mkvextract_attachments", font, a.id, proc))
              /\ IF ExtractFailed(proc)
                 THEN /\ Exit(1)
                      /\ UNCHANGED <<dirs, files, fi>>
                 ELSE /\ files' = WriteFile(files, font, "font")
                      /\ dirs' = dirs \cup Ancestors(Parent(font))
                      /\ fi' = fi + 1
                      /\ pc' = IF fi = Len(to_extract) THEN AfterFonts
                               ELSE "extract_fonts"
                      /\ UNCHANGED exit_code
    /\ UNCHANGED <<svars, args, cwd, dir_name, save_path, req_frames, fidx,
                   track_id_m, sub_type, sub_path, subs_extension, to_extract, made_dir>>

(***************************************************************************)
(* The script body (__main__)                                              *)
(***************************************************************************)
\* the clip length and the frame count of the screenshot runs of the model
RunClipLength == 300

RunNumFrames == 2

\* what get_frame_numbers can return (lines 63-70): num_frames distinct
\* hundreds of the range, given here in ascending order
RECURSIVE Ascending(_)
Ascending(S) ==
    IF S = {} THEN <<>>
    ELSE LET m == CHOOSE x \in S : \A y \in S : x <= y
         IN  <<m>> \o Ascending(S \ {m})

SampledFrames(len, count) ==
    {Ascending(S) : S \in {T \in SUBSET {Scale(Bucket(x)) : x \in Draws(len)} :
                              Cardinality(T) = count}}

\* the directory the script creates unless it exists (lines 239-241, 244-246)
MadeDir(usp, fname, dname) ==
    IF SavePathGiven(usp)
    THEN PathJoin(usp[1], dname)
    ELSE PathJoin(PathDirname(fname), dname)

\* save_path (lines 242, 247)
SavePath(usp, fname, dname) ==
    IF SavePathGiven(usp)
    THEN PathJoin(PathDirname(usp[1]), dname)
    ELSE PathJoin(PathDirname(fname), dname)

\* remove_types (line 266), without the leading '*'
RemoveTypes ==
    { <<".", "p", "g", "s">>, <<".", "a", "s", "s">>, <<".", "t", "t", "f">>,
      <<".", "o", "t", "f">>, <<".", "s", "u", "b">>, <<".", "i", "d", "x">>,
      <<".", "s", "r", "t">> }

\* matching_files (lines 269-270): the entries of the working directory that
\* glob finds for one of the patterns
MatchingFiles(fs, dir) ==
    {f \in fs : /\ f.path # <<>>
                /\ Parent(f.path) = dir
                /\ \E t \in RemoveTypes : GlobMatches(f.path[Len(f.path)], t)}

\* the names os.remove is given in lines 290 and 296
LwiName(fname) == PathBasename(fname) \o <<".", "l", "w", "i">>

FfindexName(fname) == PathBasename(fname) \o <<".", "f", "f", "i", "n", "d", "e", "x">>

\* the image writers vapoursynth may have loaded (lines 229-234)
Plugins == {"imwri", "imwrif", "none"}

\* lines 211-220: the directory of an extract-only run
ExtractOnlySetup ==
    /\ pc = "main"
    /\ extract_only
    /\ LET d == DirNameOf(filename)
           target == Resolve(cwd, PathJoin(Getcwd(cwd), d))
       IN  /\ dir_name' = d
           /\ IF ~Exists(dirs, files, Resolve(cwd, d)) /\ ~MkdirOk(dirs, files, target)
              THEN \* os.mkdir raises
                   /\ Exit(1)
                   /\ UNCHANGED <<dirs, save_path, made_dir, log>>
              ELSE /\ dirs' = dirs \cup {target}
                   /\ log' = IF Exists(dirs, files, Resolve(cwd, d)) THEN log
                             ELSE Append(log, Event("mkdir", target, 0, 0))
                   /\ save_path' = PathJoin(Getcwd(cwd), d)
                   /\ made_dir' = Some(target)
                   /\ pc' = IF SubTrackWanted(sub_track) THEN "get_sub_track_id"
                            ELSE "get_fonts"
                   /\ UNCHANGED exit_code
    /\ UNCHANGED <<svars, args, cwd, files, req_frames, fidx, track_id_m,
                   sub_type, sub_path, subs_extension, to_extract, fi>>

\* line 222
ExtractOnlyExit ==
    /\ pc = "exit_only"
    /\ Exit(0)
    /\ UNCHANGED <<svars, args, cwd, dirs, files, dir_name, save_path,
                   req_frames, fidx, track_id_m, sub_type, sub_path, subs_extension, to_extract, fi, made_dir, log>>

\* lines 224-227: the frames to write
GetFrames ==
    /\ pc = "main"
    /\ ~extract_only
    /\ IF arg_frames = None
       THEN \E fl \in SampledFrames(length, num_frames) :
               /\ req_frames' = fl
               /\ files' = OpenClip(files, cwd, filename)
               /\ log' = Append(log, Event("get_frame_numbers", Resolve(cwd, filename), 0, 0))
       ELSE /\ req_frames' = arg_frames[1]
            /\ UNCHANGED <<files, log>>
    /\ pc' = "imwri"
    /\ UNCHANGED <<svars, args, exit_code, cwd, dirs, dir_name, save_path,
                   fidx, track_id_m, sub_type, sub_path, subs_extension, to_extract, fi, made_dir>>

\* lines 229-236: the image writer, dir_name and the clip
LoadClip ==
    /\ pc = "imwri"
    /\ \E plugin \in Plugins :
          IF plugin = "none"
          THEN \* raise AttributeError
               /\ Exit(1)
               /\ UNCHANGED <<dir_name, files, log>>
          ELSE /\ dir_name' = DirNameOf(filename)
               /\ files' = OpenClip(files, cwd, filename)
               /\ log' = Append(log, Event("open_clip", Resolve(cwd, filename), 0, 0))
               /\ pc' = "mkdir"
               /\ UNCHANGED exit_code
    /\ UNCHANGED <<svars, args, cwd, dirs, save_path, req_frames, fidx,
                   track_id_m, sub_type, sub_path, subs_extension, to_extract, fi, made_dir>>

\* lines 238-258: the output directory and save_path, then the branch on
\* sub_track (imwri.Write of line 258 writes nothing yet)
MakeSaveDir ==
    /\ pc = "mkdir"
    /\ LET target == Resolve(cwd, MadeDir(user_save_path, filename, dir_name))
       IN  IF ~Exists(dirs, files, target) /\ ~MkdirOk(dirs, files, target)
           THEN \* os.mkdir raises
                /\ Exit(1)
                /\ UNCHANGED <<dirs, save_path, made_dir, log, fidx>>
           ELSE /\ dirs' = dirs \cup {target}
                /\ log' = IF Exists(dirs, files, target) THEN log
                          ELSE Append(log, Event("mkdir", target, 0, 0))
                /\ save_path' = SavePath(user_save_path, filename, dir_name)
                /\ made_dir' = Some(target)
                /\ fidx' = 1
                /\ pc' = IF SubTrackWanted(sub_track) THEN "get_sub_track_id"
                         ELSE "frames"
                /\ UNCHANGED exit_code
    /\ UNCHANGED <<svars, args, cwd, files, dir_name, req_frames, track_id_m,
                   sub_type, sub_path, subs_extension, to_extract, fi>>

\* render_subs (lines 181-191), called in line 256
RenderSubs ==
    /\ pc = "render_subs"
    /\ LET no_ext == SplitextRoot(PathBasename(filename))
           sub_file == PathJoin(save_path, no_ext \o subs_extension)
       IN  log' = Append(log, Event("render_subs", Resolve(cwd, sub_file), 0, 0))
    /\ fidx' = 1
    /\ pc' = "frames"
    /\ UNCHANGED <<svars, args, exit_code, cwd, dirs, files, dir_name,
                   save_path, req_frames, track_id_m, sub_type, sub_path, subs_extension, to_extract, fi, made_dir>>

\* one round of the loop of lines 260-262, and line 263 after the last:
\* get_frame makes the writer write <save_path>/<frame>.png
WriteFrame ==
    /\ pc = "frames"
    /\ IF fidx > Len(req_frames)
       THEN /\ pc' = "remove_sources"
            /\ UNCHANGED <<exit_code, files, fidx, log>>
       ELSE LET frame == req_frames[fidx]
                png == Resolve(cwd, PathJoin(save_path, Decimal(frame) \o <<".", "p", "n", "g">>))
            IN  IF frame >= length \/ Parent(png) \notin dirs
                THEN \* get_frame raises vapoursynth.Error
                     /\ Exit(1)
                     /\ UNCHANGED <<files, fidx, log>>
                ELSE /\ files' = WriteFile(files, png, "frame")
                     /\ log' = Append(log, Event("get_frame", png, frame, 0))
                     /\ fidx' = fidx + 1
                     /\ UNCHANGED <<pc, exit_code>>
    /\ UNCHANGED <<svars, args, cwd, dirs, dir_name, save_path, req_frames,
                   track_id_m, sub_type, sub_path, subs_extension, to_extract, fi, made_dir>>

\* lines 265-273
RemoveSources ==
    /\ pc = "remove_sources"
    /\ IF ~remove_sources
       THEN /\ pc' = "zip"
            /\ UNCHANGED <<exit_code, cwd, files, log>>
       ELSE IF Resolve(cwd, save_path) \notin dirs
       THEN \* os.chdir raises
            /\ Exit(1)
            /\ UNCHANGED <<cwd, files, log>>
       ELSE /\ cwd' = Resolve(cwd, save_path)
            /\ files' = files \ MatchingFiles(files, Resolve(cwd, save_path))
            /\ log' = Append(log, Event("remove_sources", Resolve(cwd, save_path), 0, 0))
            /\ pc' = "zip"
            /\ UNCHANGED exit_code
    /\ UNCHANGED <<svars, args, dirs, dir_name, save_path, req_frames, fidx,
                   track_id_m, sub_type, sub_path, subs_extension, to_extract, fi, made_dir>>

\* lines 275-277: shutil.make_archive(save_path, 'zip', save_path) stats
\* root_dir and writes <save_path>.zip
Zip ==
    /\ pc = "zip"
    /\ IF ~to_zip
       THEN /\ pc' = "remove_dir"
            /\ UNCHANGED <<exit_code, files, log>>
       ELSE IF Resolve(cwd, save_path) \notin dirs
       THEN \* FileNotFoundError, uncaught
            /\ Exit(1)
            /\ UNCHANGED <<files, log>>
       ELSE /\ files' = WriteFile(files,
                                  Resolve(cwd, save_path \o <<".", "z", "i", "p">>),
                                  "archive")
            /\ log' = Append(log, Event("make_archive", Resolve(cwd, save_path), 0, 0))
            /\ pc' = "remove_dir"
            /\ UNCHANGED exit_code
    /\ UNCHANGED <<svars, args, cwd, dirs, dir_name, save_path, req_frames,
                   fidx, track_id_m, sub_type, sub_path, subs_extension, to_extract, fi, made_dir>>

\* lines 279-285: an OSError of rmtree is caught and printed
RemoveDir ==
    /\ pc = "remove_dir"
    /\ IF ~remove_dir
       THEN UNCHANGED <<dirs, files, log>>
       ELSE LET target == Resolve(cwd, save_path)
            IN  IF target \notin dirs
                THEN /\ log' = Append(log, Event("rmtree", target, 0, 1))
                     /\ UNCHANGED <<dirs, files>>
                ELSE /\ dirs' = {d \in dirs : ~Under(d, target)}
                     /\ files' = {f \in files : ~Under(f.path, target)}
                     /\ log' = Append(log, Event("rmtree", target, 0, 0))
    /\ pc' = "remove_index"
    /\ UNCHANGED <<svars, args, exit_code, cwd, dir_name, save_path,
                   req_frames, fidx, track_id_m, sub_type, sub_path, subs_extension, to_extract, fi, made_dir>>

\* lines 287-299, and the end of the script
RemoveIndex ==
    /\ pc = "remove_index"
    /\ IF ~remove_index
       THEN UNCHANGED <<files, log>>
       ELSE LET lwi == Resolve(cwd, LwiName(filename))
                ffindex == Resolve(cwd, FfindexName(filename))
            IN  IF \E f \in files : f.path = lwi
                THEN \* removed .lwi: sys.exit(0)
                     /\ files' = {f \in files : f.path # lwi}
                     /\ log' = Append(log, Event("remove_index", lwi, 0, 0))
                ELSE IF \E f \in files : f.path = ffindex
                THEN /\ files' = {f \in files : f.path # ffindex}
                     /\ log' = Append(log, Event("remove_index", ffindex, 0, 0))
                ELSE \* "Unable to remove index"
                     /\ log' = Append(log, Event("remove_index", ffindex, 0, 1))
                     /\ UNCHANGED files
    /\ Exit(0)
    /\ UNCHANGED <<svars, args, cwd, dirs, dir_name, save_path, req_frames,
                   fidx, track_id_m, sub_type, sub_path, subs_extension, to_extract, fi, made_dir>>

(***************************************************************************)
(* Specifications                                                          *)
(***************************************************************************)
\* the sampler is not running
SamplerIdle(len, count) ==
    /\ length = len
    /\ num_frames = count
    /\ n = count
    /\ frames = {}
    /\ drawn = 0
    /\ spc = "idle"
    /\ result = <<>>

\* the directories and files there are when the script starts
BaseDirs ==
    { <<>>, StartDir, StartDir \o << <<"m">> >>, << <<"m">> >>, << <<"o">> >> }

OutDirs ==
    { StartDir \o << <<"v">> >>, StartDir \o << <<"m">>, <<"v">> >>,
      << <<"m">>, <<"v">> >>, << <<"o">>, <<"v">> >> }

\* the state of the script before its first line
ScriptStart(at) ==
    /\ pc = at
    /\ exit_code = -1
    /\ cwd = StartDir
    /\ dirs \in {BaseDirs, BaseDirs \cup OutDirs}
    /\ files = {[path |-> Resolve(StartDir, filename), kind |-> "video"]}
    /\ dir_name = <<>>
    /\ save_path = <<>>
    /\ req_frames = <<>>
    /\ fidx = 1
    /\ track_id_m = 0
    /\ sub_type = ""
    /\ sub_path = <<>>
    /\ subs_extension = <<>>
    /\ to_extract = <<>>
    /\ fi = 1
    /\ made_dir = None
    /\ log = <<>>

\* the script and the sampler's caller are not running
ScriptIdle ==
    /\ filename = <<>>
    /\ arg_frames = None
    /\ sub_track = None
    /\ remove_sources = FALSE
    /\ to_zip = FALSE
    /\ remove_dir = FALSE
    /\ extract_only = FALSE
    /\ remove_index = FALSE
    /\ user_save_path = None
    /\ file_tracks = <<>>
    /\ file_attachments = <<>>
    /\ pc = "idle"
    /\ exit_code = -1
    /\ cwd = StartDir
    /\ dirs = BaseDirs
    /\ files = {}
    /\ dir_name = <<>>
    /\ save_path = <<>>
    /\ req_frames = <<>>
    /\ fidx = 1
    /\ track_id_m = 0
    /\ sub_type = ""
    /\ sub_path = <<>>
    /\ subs_extension = <<>>
    /\ to_extract = <<>>
    /\ fi = 1
    /\ made_dir = None
    /\ log = <<>>

\* the clips of the model: v.x, m/v.x and /m/v.ts
Filenames ==
    { <<"v", ".", "x">>, <<"m", "/", "v", ".", "x">>,
      <<"/", "m", "/", "v", ".", "t", "s">> }

\* the values of --save-path: none, /o and /o/
SavePaths == { None, Some(<<"/", "o">>), Some(<<"/", "o", "/">>) }

\* the subtitle tracks mkvmerge -i lists
TrackLists ==
    { <<>>,
      << [id |-> 2, codec |-> "SubStationAlpha"] >>,
      << [id |-> 2, codec |-> "HDMV PGS"], [id |-> 3, codec |-> "VobSub"] >>,
      << [id |-> 1, codec |-> "Timed Text"] >> }

\* the attachments mkvmerge -i lists
AttachmentKinds ==
    { [type |-> "application/x-truetype-font", name |-> <<"a", ".", "t", "t", "f">>],
      [type |-> "application/vnd.ms-opentype", name |-> <<"b", ".", "O", "T", "F">>],
      [type |-> "application/x-truetype-font", name |-> <<"c", ".", "b", "i", "n">>],
      [type |-> "application/octet-stream", name |-> <<"d", ".", "o", "t", "f">>],
      [type |-> "image/jpeg", name |-> <<"e", ".", "j", "p", "g">>],
      [type |-> "application/octet-stream", name |-> <<".", "t", "t", "f">>] }

\* attachment lists of up to k entries, numbered from 1 as mkvmerge does
AttachmentLists(k) ==
    UNION { { [i \in 1 .. len |-> [id |-> i, type |-> f[i].type, name |-> f[i].name]] :
                f \in [1 .. len -> AttachmentKinds] } : len \in 0 .. k }

RunAttachments ==
    { <<>>,
      << [id |-> 1, type |-> "application/x-truetype-font", name |-> <<"a", ".", "t", "t", "f">>],
         [id |-> 2, type |-> "image/jpeg", name |-> <<"e", ".", "j", "p", "g">>],
         [id |-> 3, type |-> "application/octet-stream", name |-> <<"d", ".", "o", "t", "f">>],
         [id |-> 4, type |-> "application/x-truetype-font", name |-> <<"c", ".", "b", "i", "n">>] >> }

\* largest attachment list of the font specification
MaxAttachments == 2

InitRun ==
    /\ SamplerIdle(RunClipLength, RunNumFrames)
    /\ filename \in Filenames
    /\ arg_frames \in {None, Some(<<5, 7>>)}
    /\ sub_track \in {None, Some(1), Some(2)}
    /\ remove_sources \in BOOLEAN
    /\ to_zip \in BOOLEAN
    /\ remove_dir \in BOOLEAN
    /\ extract_only \in BOOLEAN
    /\ remove_index \in BOOLEAN
    /\ user_save_path \in SavePaths
    /\ file_tracks \in TrackLists
    /\ file_attachments \in RunAttachments
    /\ ScriptStart("main")

NextRun ==
    \/ ExtractOnlySetup
    \/ ExtractOnlyExit
    \/ GetFrames
    \/ LoadClip
    \/ MakeSaveDir
    \/ GetSubTrackId
    \/ GetSubs
    \/ ExtractSubs
    \/ GetFontsInspect
    \/ ExtractFont
    \/ RenderSubs
    \/ WriteFrame
    \/ RemoveSources
    \/ Zip
    \/ RemoveDir
    \/ RemoveIndex

SpecRun == InitRun /\ [][NextRun]_vars

\* get_fonts(filename, save_path) called in an extract-only run (line 221)
InitFonts ==
    /\ SamplerIdle(RunClipLength, RunNumFrames)
    /\ filename = <<"v", ".", "x">>
    /\ arg_frames = None
    /\ sub_track = None
    /\ remove_sources = FALSE
    /\ to_zip = FALSE
    /\ remove_dir = FALSE
    /\ extract_only = TRUE
    /\ remove_index = FALSE
    /\ user_save_path = None
    /\ file_tracks = <<>>
    /\ file_attachments \in AttachmentLists(MaxAttachments)
    /\ ScriptStart("main")

NextFonts == ExtractOnlySetup \/ GetFontsInspect \/ ExtractFont \/ ExtractOnlyExit

SpecFonts == InitFonts /\ [][NextFonts]_vars

\* the call of line 226: get_frame_numbers(filename, num_frames)
InitCall(lens, counts) ==
    /\ length \in lens
    /\ num_frames \in counts
    /\ n = num_frames
    /\ frames = {}
    /\ drawn = 0
    /\ spc = "choices"
    /\ result = <<>>
    /\ ScriptIdle

\* clip lengths of the sampler specification: the shortest of at least 2000
\* frames, one that is no multiple of 10, and the 12,000 frames of section 8
LongLengths == {2000, 2099, 12000}

\* clip lengths of the top-up specification: an empty range (5), and ranges
\* of one (20), three (300) and eight (1000) hundreds-buckets
ShortLengths == {5, 20, 300, 1000}

InitSampler == InitCall(LongLengths, 1 .. MaxN)

InitTopUp == InitCall(ShortLengths, 0 .. MaxTarget)

NextSampler == Choices \/ TopUp \/ Return

SpecSampler == InitSampler /\ [][NextSampler]_vars

\* a draw that yields a new bucket is eventually made when one is possible
SpecTopUp ==
    /\ InitTopUp
    /\ [][NextSampler]_vars
    /\ WF_vars(Choices)
    /\ WF_vars(TopUp)
    /\ WF_vars(Return)

(***************************************************************************)
(* Properties of get_frame_numbers                                         *)
(***************************************************************************)
\* the entries of the returned list
Returned == {result[b] : b \in DOMAIN result}

\* C1: for every clip length >= 2000 and every requested count n with
\* 1 <= n <= 10, the list get_frame_numbers returns holds exactly n entries,
\* pairwise distinct and each a multiple of 100, whatever draws were made.
C1_ExactlyNDistinctHundreds ==
    (spc = "returned" /\ length >= 2000 /\ n >= 1 /\ n <= 10) =>
        /\ Cardinality(DOMAIN result) = n
        /\ \A a, b \in DOMAIN result : a # b => result[a] # result[b]
        /\ \A b \in DOMAIN result : result[b] % 100 = 0

\* a call with n = 10 on a 2099-frame clip has returned ten frames
C1_Witness ==
    /\ spc = "returned"
    /\ length = 2099
    /\ n = 10
    /\ Cardinality(Returned) = 10

\* C2 as stated: for a 12,000-frame clip with n = 5, every returned frame
\* index lies within [1200, 9600].
C2_Within1200To9600 ==
    (spc = "returned" /\ length = 12000 /\ n = 5) =>
        \A f \in Returned : 1200 <= f /\ f <= 9600

\* C2 as the code has it: for a 12,000-frame clip with n = 5, every returned
\* frame index lies within [1200, 10700] (the range ends at 12000//10*9).
C2_Within1200To10700 ==
    (spc = "returned" /\ length = 12000 /\ n = 5) =>
        \A f \in Returned : 1200 <= f /\ f <= 10700

\* a call with n = 5 on a 12,000-frame clip has returned both extremes
C2_Witness ==
    /\ spc = "returned"
    /\ length = 12000
    /\ n = 5
    /\ Cardinality(Returned) = 5
    /\ 1200 \in Returned
    /\ 10700 \in Returned

\* C3: the top-up loop eventually terminates under fair draws whenever the
\* range covers at least as many hundreds-buckets as the target count, and
\* never terminates when the range is non-empty but covers fewer buckets
\* than the target count.
C3_TopUpTerminatesIffEnoughBuckets ==
    /\ [](  (spc = "while" /\ NumBuckets(length) >= num_frames)
          => <>(spc = "returned"))
    /\ [](  (Population(length) # {} /\ NumBuckets(length) < num_frames)
          => spc # "returned")

\* the loop is running with every bucket of a three-bucket range collected and
\* a target of four
C3_Witness ==
    /\ spc = "while"
    /\ length = 300
    /\ num_frames = 4
    /\ Cardinality(frames) = NumBuckets(length)
    /\ LoopCond(frames, num_frames)


(***************************************************************************)
(* Properties of the script                                                *)
(***************************************************************************)
\* the positions of the history's entries for the given operations
Entries(ops) == {i \in 1 .. Len(log) : log[i].op \in ops}

\* the files written by the given kind of writer
FilesOfKind(kinds) == {f \in files : f.kind \in kinds}

ExtractionOps == {"mkvextract_tracks", "mkvextract_attachments"}

CleanupOps == {"remove_sources", "make_archive", "rmtree", "remove_index"}

\* every position of the script after get_sub_track_id has returned
AfterTrackLookup ==
    {"get_subs", "extract_subs", "get_fonts", "extract_fonts", "exit_only",
     "render_subs", "frames", "remove_sources", "zip", "remove_dir",
     "remove_index"}

\* C4: when the requested 1-indexed subtitle track number exceeds the number
\* of subtitle tracks the container inspection reports, the run ends in a
\* fatal error with non-zero exit status: no subtitle file, no font file and
\* no frame image is produced, and no extraction command is invoked.
C4_TrackOutOfRangeIsFatal ==
    (SubTrackWanted(sub_track) /\ sub_track[1] > Len(file_tracks)) =>
        /\ FilesOfKind({"subtitle", "font", "frame"}) = {}
        /\ Entries(ExtractionOps) = {}
        /\ pc \notin AfterTrackLookup
        /\ (pc = "exit" => exit_code # 0)

\* track 2 was requested, the inspection reported one track, and the run is
\* over
C4_Witness ==
    /\ sub_track = Some(2)
    /\ Len(file_tracks) = 1
    /\ pc = "exit"
    /\ exit_code = 1
    /\ log # <<>>
    /\ log[Len(log)] = Event("mkvmerge", <<>>, 0, 0)

\* what an extract-only run without --subtitle-track never does
C5_OnlyFonts ==
    /\ Entries({"mkvextract_tracks", "get_frame_numbers", "open_clip",
                "render_subs", "get_frame"} \cup CleanupOps) = {}
    /\ FilesOfKind({"subtitle", "frame", "index", "archive"}) = {}
    /\ pc \notin {"get_sub_track_id", "get_subs", "extract_subs", "imwri",
                  "mkdir", "render_subs", "frames", "remove_sources", "zip",
                  "remove_dir", "remove_index"}

\* C5 as stated: in a run with --extract-only and no --subtitle-track only
\* font attachments are extracted (no subtitle extraction, no sampler, no
\* clip, no frame image, no cleanup step), and the run ends with exit status 0
\* after the font extraction step.
C5_ExtractOnlyEndsWithZero ==
    (extract_only /\ sub_track = None) =>
        /\ C5_OnlyFonts
        /\ (pc = "exit" => exit_code = 0)

\* C5 as the code has it: the same, but the run ends with exit status 0 only
\* when the attachment listing and every font extraction succeeded; a failure
\* of either ends it with status 1.
C5_ExtractOnlyEndsWithZeroUnlessFontsFail ==
    (extract_only /\ sub_track = None) =>
        /\ C5_OnlyFonts
        /\ (pc = "exit" =>
              exit_code = IF \E i \in 1 .. Len(log) : log[i].rc # 0 THEN 1 ELSE 0)

\* an extract-only run with every cleanup flag set has extracted a font and
\* ended with status 0
C5_Witness ==
    /\ extract_only
    /\ sub_track = None
    /\ remove_sources /\ to_zip /\ remove_dir /\ remove_index
    /\ pc = "exit"
    /\ exit_code = 0
    /\ FilesOfKind({"font"}) # {}

\* C6: if the track extraction for the subtitle, or the attachment extraction
\* for any font, returns a non-zero exit code, the run terminates at once with
\* non-zero status: no further font is extracted, no frame is rendered or
\* written, and no cleanup step executes.
C6_FailedExtractionIsFatal ==
    \A i \in Entries(ExtractionOps) :
        log[i].rc # 0 =>
            /\ i = Len(log)
            /\ pc = "exit"
            /\ exit_code # 0
            /\ Entries({"render_subs", "get_frame"} \cup CleanupOps) = {}
            /\ FilesOfKind({"frame", "archive"}) = {}

\* the extraction of a font failed after a font was extracted and before the
\* last one was tried
C6_Witness ==
    /\ pc = "exit"
    /\ log # <<>>
    /\ log[Len(log)].op = "mkvextract_attachments"
    /\ log[Len(log)].rc # 0
    /\ fi > 1
    /\ fi < Len(to_extract)
    /\ ~extract_only
    /\ remove_sources /\ to_zip

\* the qualification of section 4.3, in either order of its two conditions
TypeOrExt(a) == TypeIsFont(a) \/ ExtIsFont(a)

ExtOrType(a) == ExtIsFont(a) \/ TypeIsFont(a)

\* the attachment ids of a list, in its order
Ids(seq) == [i \in 1 .. Len(seq) |-> seq[i].id]

\* the ids of the attachment extractions made so far, in their order
RECURSIVE ExtractedIds(_)
ExtractedIds(k) ==
    IF k = 0 THEN <<>>
    ELSE IF log[k].op = "mkvextract_attachments"
    THEN Append(ExtractedIds(k - 1), log[k].id)
    ELSE ExtractedIds(k - 1)

\* s is the start of t
IsPrefix(s, t) == Len(s) <= Len(t) /\ Take(t, Len(s)) = s

\* C7: get_fonts selects an attachment for extraction if and only if its MIME
\* type is a font type or its lower-cased extension is .ttf or .otf; every
\* such attachment is extracted exactly once, the others never, and the
\* selection is the same whichever of the two conditions is looked at first.
C7_FontsSelectedByTypeOrExtension ==
    /\ (\E i \in 1 .. Len(log) : log[i] = Event("mkvmerge", <<>>, 0, 0)) =>
          /\ Ids(to_extract) = Ids(SelectSeq(file_attachments, TypeOrExt))
          /\ Ids(to_extract) = Ids(SelectSeq(file_attachments, ExtOrType))
    /\ IsPrefix(ExtractedIds(Len(log)), Ids(SelectSeq(file_attachments, TypeOrExt)))
    /\ (pc = "exit" /\ exit_code = 0) =>
          /\ ExtractedIds(Len(log)) = Ids(SelectSeq(file_attachments, TypeOrExt))
          /\ \A i \in Entries({"mkvextract_attachments"}) : log[i].rc = 0

\* get_fonts has extracted an attachment with a font type and no font
\* extension and one with a font extension and no font type
C7_Witness ==
    /\ pc = "exit"
    /\ exit_code = 0
    /\ Len(file_attachments) = 2
    /\ Len(ExtractedIds(Len(log))) = 2
    /\ \E a \in 1 .. 2 : TypeIsFont(file_attachments[a]) /\ ~ExtIsFont(file_attachments[a])
    /\ \E a \in 1 .. 2 : ~TypeIsFont(file_attachments[a]) /\ ExtIsFont(file_attachments[a])

\* the place of a cleanup step in the order remove-sources, zip, remove-dir,
\* remove-index
Rank(op) ==
    CASE op = "remove_sources" -> 1
      [] op = "make_archive" -> 2
      [] op = "rmtree" -> 3
      [] op = "remove_index" -> 4

\* the frame loop is over and the run went on to the cleanup
CleanupReached ==
    /\ ~extract_only
    /\ pc \in {"remove_sources", "zip", "remove_dir", "remove_index", "exit"}
    /\ req_frames # <<>>
    /\ Cardinality(Entries({"get_frame"})) = Len(req_frames)

\* cleanup starts only after every selected frame, and its steps keep the
\* order remove-sources, zip, remove-dir, remove-index
C8_CleanupInOrder ==
    /\ \A i \in Entries(CleanupOps) :
          Cardinality({j \in Entries({"get_frame"}) : j < i}) = Len(req_frames)
    /\ \A i, j \in Entries(CleanupOps) :
          i < j => Rank(log[i].op) < Rank(log[j].op)

\* C8: in a screenshot run cleanup starts only after every selected frame has
\* been written and the enabled steps run in the order remove-sources, zip,
\* remove-dir, remove-index; with both --zip and --remove-dir the archive is
\* created from the output directory before that directory is deleted, and
\* the archive still exists at the end of the run.
C8_CleanupOrderAndArchive ==
    ~extract_only =>
        /\ C8_CleanupInOrder
        /\ (CleanupReached /\ pc = "exit" /\ to_zip /\ remove_dir) =>
              /\ FilesOfKind({"archive"}) # {}
              /\ \E i, j \in 1 .. Len(log) :
                    /\ i < j
                    /\ log[i] = Event("make_archive", made_dir[1], 0, 0)
                    /\ log[j].op = "rmtree"

\* C9: in a screenshot run, for every video path and --save-path value, the
\* directory that frames, the subtitle file and fonts are written into
\* (save_path) is the directory the run created, or found existing, at its
\* start.
C9_SavePathIsTheMadeDirectory ==
    (~extract_only /\ made_dir # None) =>
        /\ cwd = StartDir => Resolve(cwd, save_path) = made_dir[1]
        /\ \A f \in FilesOfKind({"subtitle", "font", "frame"}) :
              Parent(f.path) = made_dir[1]

\* C10: --remove-sources changes nothing except deleting the files of the
\* output directory that match the subtitle and font patterns: the PNG frames
\* are kept, and the later zip, remove-dir and remove-index steps resolve to
\* the same output directory and the same index files as without it, for
\* relative as well as absolute video paths.
C10_RemoveSourcesOnlyDeletesSources ==
    (~extract_only /\ remove_sources /\ pc \in {"zip", "remove_dir", "remove_index"}) =>
        /\ \A i \in Entries({"get_frame"}) : \E f \in files : f.path = log[i].target
        /\ Resolve(cwd, save_path) = Resolve(StartDir, save_path)
        /\ Resolve(cwd, LwiName(filename)) = Resolve(StartDir, LwiName(filename))
        /\ Resolve(cwd, FfindexName(filename)) = Resolve(StartDir, FfindexName(filename))

====
